---- MODULE Spec2Model ----
(***************************************************************************)
(* Model of scripts/analyze_benchmarks.py: the criterion result loader,    *)
(* the four category analyzers and main(), the report printer and exit     *)
(* code driver.  A run of the script is a behaviour: Init fixes the file   *)
(* system the script finds, every action is one step of main() or of the   *)
(* loader's loop.                                                          *)
(***************************************************************************)
EXTENDS Integers, Sequences, FiniteSets

VARIABLES
    root,         \* what target/criterion is (RootKinds)
    listing,      \* the children of the root in the order iterdir() yields them
    pc,           \* position of main(); "blocked" inside a call that never
                  \* returns, "killed" once the kernel has killed the process
    remaining,    \* children iterdir() has not yielded yet
    loaded,       \* load_benchmark_results' local dict `results` (insertion order)
    results,      \* main's `results`, once the loader has returned
    bound,        \* TRUE once main's `results` has been assigned
    all_passed,   \* main's `all_passed`
    flags,        \* the pass flags the analyzers returned so far, in call order
    calls,        \* the functions main() has called so far, in call order
    out,          \* standard output, one element per print()
    raised,       \* the uncaught exception that ended the run, or "none"
    exit_code     \* the process exit code; NotExited while running and
                  \* for a process that a signal ended

vars == <<root, listing, pc, remaining, loaded, results, bound, all_passed,
          flags, calls, out, raised, exit_code>>

----------------------------------------------------------------------------
(* Bounds and input domains *)

\* Longest directory listing explored.
MaxChildren == 2

\* exit_code before the process has terminated.
NotExited == 0 - 1

\* Directory names under target/criterion: one per category, and one that
\* matches both required categories with text around the substrings.
BenchNames ==
    { "app_sandbox_startup",
      "tool_execution_latency",
      "memory_overhead",
      "concurrent_operations",
      "cold_app_sandbox_startup_tool_execution_latency_4" }

\* Point estimates in nanoseconds: just below the latency threshold
\* (100 ms), exactly at it, and exactly at the startup threshold (2000 ms).
NsValues == { 99999999, 100000000, 2000000000 }

\* What json.load returned for an estimates.json.  shape says what
\* data.get('mean', {}).get('point_estimate', 0) meets:
\*   "not_object"       the top-level value is not an object (a list)
\*   "mean_not_object"  'mean' is present and not an object (null, 5, "x")
\*   "no_mean"          the object has no 'mean' key
\*   "no_pe"            'mean' is an object without 'point_estimate'
\*   "num"              point_estimate is the number ns
\*   "big_int"          point_estimate is an int beyond the float range
\*                      whose quotient by 1,000,000 is a finite float
\*                      (2**1024, 10**310): Python's int / int rounds the
\*                      exact quotient
\*   "huge_int"         point_estimate is an int whose quotient by
\*                      1,000,000 is beyond the float range (10**400)
\*   "neg_inf"          point_estimate is the float -inf (-Infinity)
\*   "nan"              point_estimate is the float nan (NaN)
\*   "non_numeric"      point_estimate is a JSON string
EmptyObject == [shape |-> "no_mean", ns |-> 0]

Shape(sh) == [shape |-> sh, ns |-> 0]

\* Objects parsed from texts that are valid JSON.
DataValues ==
    { EmptyObject, Shape("no_pe"), Shape("not_object"), Shape("mean_not_object"),
      Shape("big_int"), Shape("huge_int"), Shape("non_numeric") }
    \cup { [shape |-> "num", ns |-> n] : n \in NsValues }

\* Objects parsed from texts that are not valid JSON and that json.load
\* accepts all the same, for the literals NaN, Infinity and -Infinity in
\* them: as the point estimate, or (the last) in a field nothing reads.
NonstandardValues ==
    { Shape("nan"), Shape("neg_inf"), [shape |-> "num", ns |-> 99999999] }

\* What target/criterion is:
\*   "missing"        nothing of that name
\*   "no_access"      target/ cannot be searched, stat() of the root is denied
\*   "file"           a file
\*   "dir"            a directory that can be read and searched
\*   "dir_no_read"    a directory that cannot be read (mode 000)
\*   "dir_no_search"  a directory that can be read and not searched
\*                    (mode 444): stat() of every child is denied
RootKinds ==
    { "missing", "no_access", "file", "dir", "dir_no_read", "dir_no_search" }

\* What stands at base/estimates.json and makes the run end in an uncaught
\* exception:
\*   "no_access"        base/ (or the child) cannot be searched:
\*                      PermissionError out of exists()
\*   "directory"        a directory: IsADirectoryError out of open()
\*   "unreadable"       a file without read permission: PermissionError
\*                      out of open()
\*   "socket"           a unix domain socket: OSError (ENXIO) out of open()
\*   "read_error"       a file that opens and whose read() fails
\*                      (/proc/self/mem): OSError (EIO) out of json.load
\*   "too_large"        content larger than the memory the process can
\*                      get (/dev/zero): MemoryError out of json.load where
\*                      an allocation fails (a limit on the address space),
\*                      and where none fails the kernel kills the process
\*                      inside json.load (signal 9)
\*   "malformed"        a text that is not JSON: JSONDecodeError
\*   "not_utf8"         bytes that are not UTF-8: UnicodeDecodeError
\*   "too_many_digits"  an integer literal of more than 4300 digits:
\*                      ValueError
\*   "too_deep"         JSON nested deeper than the recursion limit:
\*                      RecursionError
RejectedKinds ==
    { "no_access", "directory", "unreadable", "socket",
      "read_error", "too_large",
      "malformed", "not_utf8", "too_many_digits", "too_deep" }

\* "fifo": a FIFO nobody writes to; open() never returns.
UnloadableKinds == RejectedKinds \cup { "fifo" }

\* The loader ends the run on such a child before it reads the child's
\* name: two names stand for all.
UnloadableNames == { "app_sandbox_startup", "memory_overhead" }

\* A child of the root: a plain file, a directory without
\* base/estimates.json, a directory whose estimates.json cannot be loaded,
\* or a directory whose estimates.json parses to data.
ChildrenOf(name) ==
    { [name |-> name, is_dir |-> FALSE, estimates |-> "absent", data |-> EmptyObject],
      [name |-> name, is_dir |-> TRUE, estimates |-> "absent", data |-> EmptyObject] }
    \cup { [name |-> name, is_dir |-> TRUE, estimates |-> k, data |-> EmptyObject] :
             k \in IF name \in UnloadableNames THEN UnloadableKinds ELSE {} }
    \cup { [name |-> name, is_dir |-> TRUE, estimates |-> "valid", data |-> d] :
             d \in DataValues }
    \cup { [name |-> name, is_dir |-> TRUE, estimates |-> "nonstandard", data |-> d] :
             d \in NonstandardValues }

Children == UNION { ChildrenOf(n) : n \in BenchNames }

\* Directory listings: up to MaxChildren children with distinct names.
Listings ==
    UNION { { s \in [1..k -> Children] :
                \A i, j \in 1..k : i # j => s[i].name # s[j].name } :
            k \in 0..MaxChildren }

----------------------------------------------------------------------------
(* Constants of the script *)

THRESHOLDS ==
    [ app_startup_time_ms |-> 2000,
      tool_execution_latency_ms |-> 100,
      memory_overhead_percent |-> 10 ]

\* mean_time_ns / 1_000_000
NsPerMs == 1000000

\* 1_000_000 = 2^6 * 5^6
FiveToSix == 15625

\* '.2f' prints hundredths; one hundredth of a millisecond is 10,000 ns.
NsPerHundredth == 10000

----------------------------------------------------------------------------
(* Helpers for Python's built-ins *)

\* sub in s, for Python strings
Contains(sub, s) ==
    \E i \in 1..(Len(s) - Len(sub) + 1) : SubSeq(s, i, i + Len(sub) - 1) = sub

\* [k for k in results.keys() if sub in k]: dict order is insertion order
Matching(res, sub) == SelectSeq(res, LAMBDA e : Contains(sub, e.name))

\* data['mean']['point_estimate'] would raise on a missing key instead
PointEstimateStrict(data) ==
    CASE data.shape \in {"not_object", "mean_not_object"} ->
           [exc |-> "AttributeError", shape |-> "num", ns |-> 0]
      [] data.shape \in {"no_mean", "no_pe"} ->
           [exc |-> "KeyError", shape |-> "num", ns |-> 0]
      [] OTHER ->
           [exc |-> "none", shape |-> data.shape, ns |-> data.ns]

\* data.get('mean', {}).get('point_estimate', 0).  A value that is not a
\* dict has no .get: AttributeError, for the top-level value and for
\* 'mean'.  A missing 'mean' or a missing 'point_estimate' yields the
\* default 0.
PointEstimate(data) ==
    CASE data.shape \in {"not_object", "mean_not_object"} ->
           [exc |-> "AttributeError", shape |-> "num", ns |-> 0]
      [] data.shape \in {"no_mean", "no_pe"} ->
           [exc |-> "none", shape |-> "num", ns |-> 0]
      [] OTHER ->
           [exc |-> "none", shape |-> data.shape, ns |-> data.ns]

\* mean_time_ns / 1_000_000: true division.  The result is a float of class
\*   "finite"   the quotient, kept exactly as whole milliseconds (int) plus
\*              a remainder in nanoseconds (frac)
\*   "big"      a finite float above every threshold (1e304 for 10**310)
\*   "neg_inf"  -inf
\*   "nan"      nan
\* An int whose quotient is beyond the float range raises OverflowError, a
\* str raises TypeError.
Float(cls, int, frac) == [exc |-> "none", cls |-> cls, int |-> int, frac |-> frac]

TrueDivide(pe) ==
    CASE pe.shape = "num" -> Float("finite", pe.ns \div NsPerMs, pe.ns % NsPerMs)
      [] pe.shape = "big_int" -> Float("big", 0, 0)
      [] pe.shape = "neg_inf" -> Float("neg_inf", 0, 0)
      [] pe.shape = "nan" -> Float("nan", 0, 0)
      [] pe.shape = "huge_int" ->
           [exc |-> "OverflowError", cls |-> "nan", int |-> 0, frac |-> 0]
      [] OTHER ->
           [exc |-> "TypeError", cls |-> "nan", int |-> 0, frac |-> 0]

\* mean_time_ms < threshold, for an integer threshold.  A finite quotient
\* int + frac/1e6 with 0 <= frac < 1e6 is below the integer threshold
\* exactly when int is.  (For |ns| < 2^53 the float quotient is correctly
\* rounded and differs from an integer by at least 1e-6 or not at all, so
\* the float comparison agrees with the exact one.)  -inf is below every
\* threshold; nan compares false.
BelowThresholdLe(ms, threshold) ==
    CASE ms.cls = "finite" ->
           ms.int < threshold \/ (ms.int = threshold /\ ms.frac = 0)
      [] ms.cls = "neg_inf" -> TRUE
      [] OTHER -> FALSE

BelowThreshold(ms, threshold) ==
    CASE ms.cls = "finite" -> ms.int < threshold
      [] ms.cls = "neg_inf" -> TRUE
      [] OTHER -> FALSE

----------------------------------------------------------------------------
(* The analyzers.  Each returns [exc, flag, message]: exc is "none" when   *)
(* the function returns (flag, message), else the exception it raises.     *)

\* 2^k mod 5^6
RECURSIVE Pow2Mod(_)
Pow2Mod(k) == IF k = 0 THEN 1 ELSE (2 * Pow2Mod(k - 1)) % FiveToSix

\* The binary exponent e of ns / 1,000,000 for ns > 0:
\* 2^e <= ns / 1,000,000 < 2^(e+1).  m is ns * 2^(-e) on the way down and
\* bound is 2^e * 1,000,000 on the way up.
RECURSIVE ExponentDown(_, _)
ExponentDown(m, e) == IF m >= NsPerMs THEN e ELSE ExponentDown(2 * m, e - 1)

RECURSIVE ExponentUp(_, _, _)
ExponentUp(ns, limit, e) ==
    IF e = 11 \/ ns < 2 * limit THEN e ELSE ExponentUp(ns, 2 * limit, e + 1)

Exponent(ns) ==
    IF ns >= NsPerMs THEN ExponentUp(ns, NsPerMs, 0) ELSE ExponentDown(ns, 0)

\* How the float ns / 1_000_000 lies to the exact quotient, 0 < ns < 2^31:
\* 0 when the quotient is a float, -1 when the division rounded down, 1 when
\* it rounded up.  With 53 significant bits and e the binary exponent, the
\* quotient in units of the last place is ns * 2^(46-e) / 5^6; the division
\* rounds to nearest, so it goes down exactly when the remainder of that
\* fraction is below one half.
FloatError(ns) ==
    LET r == ((ns % FiveToSix) * Pow2Mod(46 - Exponent(ns))) % FiveToSix
    IN  IF r = 0 THEN 0 ELSE IF 2 * r < FiveToSix THEN 0 - 1 ELSE 1

\* f"{mean_time_ms:.2f}" for a finite quotient, as the number of hundredths
\* printed ('100.00' is 10000).  The format rounds the float's exact binary
\* value to the nearest hundredth, halves to even: a quotient that is a
\* decimal half way between two hundredths goes the way the division
\* rounded it, and to the even hundredth when it is a float itself
\* (0.125 prints 0.12, 0.375 prints 0.38).
Format2f(ms) ==
    LET down == ms.int * 100 + ms.frac \div NsPerHundredth
        rest == ms.frac % NsPerHundredth
        err == FloatError(ms.int * NsPerMs + ms.frac)
    IN  CASE 2 * rest < NsPerHundredth -> down
          [] 2 * rest > NsPerHundredth -> down + 1
          [] err < 0 -> down
          [] err > 0 -> down + 1
          [] OTHER -> IF down % 2 = 0 THEN down ELSE down + 1

\* One print(): a fixed text, or (Line) a line built from values.
Text(s) == [kind |-> "text", text |-> s]

\* f"  {status} {name}: {mean_time_ms:.2f}ms (threshold: {threshold}ms)".
\* hundredths is the number printed, in hundredths of a millisecond, for a
\* finite float; the other classes print as the digits of the big float,
\* "-inf" and "nan".
Line(kind, name, ms, threshold) ==
    [kind |-> kind, name |-> name, cls |-> ms.cls,
     hundredths |-> IF ms.cls = "finite" THEN Format2f(ms) ELSE 0,
     threshold |-> threshold]

Target(text, threshold) == [kind |-> "target", text |-> text, threshold |-> threshold]

Returned(flag, message) == [exc |-> "none", flag |-> flag, message |-> message]

Raises(exc) == [exc |-> exc, flag |-> FALSE, message |-> <<>>]

\* `if not benchmarks: return False, "No ... found"`
NoDataPasses(text) == Returned(TRUE, <<Text(text)>>)

NoData(text) == Returned(FALSE, <<Text(text)>>)

\* The for loop of analyze_startup_time / analyze_execution_latency over
\* the entries benchs[i..], with the loop's all_pass and messages so far.
RECURSIVE ThresholdLoop(_, _, _, _, _)
ThresholdLoop(benchs, i, threshold, all_pass, messages) ==
    IF i > Len(benchs) THEN Returned(all_pass, messages)
    ELSE LET mean_time_ns == PointEstimate(benchs[i].data)
             mean_time_ms == TrueDivide(mean_time_ns)
             passed == BelowThreshold(mean_time_ms, threshold)
             line == Line(IF passed THEN "PASS" ELSE "FAIL", benchs[i].name,
                          mean_time_ms, threshold)
         IN  IF mean_time_ns.exc # "none" THEN Raises(mean_time_ns.exc)
             ELSE IF mean_time_ms.exc # "none" THEN Raises(mean_time_ms.exc)
             ELSE ThresholdLoop(benchs, i + 1, threshold,
                                all_pass /\ passed, Append(messages, line))

analyze_startup_time(res) ==
    LET startup_benchmarks == Matching(res, "app_sandbox_startup")
    IN  IF startup_benchmarks = <<>>
        THEN NoData("No startup benchmarks found")
        ELSE ThresholdLoop(startup_benchmarks, 1,
                           THRESHOLDS.app_startup_time_ms, TRUE, <<>>)

analyze_execution_latency(res) ==
    LET latency_benchmarks == Matching(res, "tool_execution_latency")
    IN  IF latency_benchmarks = <<>>
        THEN NoData("No execution latency benchmarks found")
        ELSE ThresholdLoop(latency_benchmarks, 1,
                           THRESHOLDS.tool_execution_latency_ms, TRUE, <<>>)

analyze_memory_overhead(res) ==
    LET memory_benchmarks == Matching(res, "memory_overhead")
    IN  IF memory_benchmarks = <<>>
        THEN NoData("No memory overhead benchmarks found")
        ELSE Returned(TRUE,
               << Text("  Note: Memory overhead analysis requires manual measurement"),
                  Text("  Use system monitoring tools to measure actual memory usage"),
                  Target("  Target: <% of host system",
                         THRESHOLDS.memory_overhead_percent) >>)

\* The for loop of analyze_concurrent_performance.
RECURSIVE ConcurrentLoop(_, _, _)
ConcurrentLoop(benchs, i, messages) ==
    IF i > Len(benchs) THEN Returned(TRUE, messages)
    ELSE LET mean_time_ns == PointEstimate(benchs[i].data)
             mean_time_ms == TrueDivide(mean_time_ns)
             line == Line("info", benchs[i].name, mean_time_ms, 0)
         IN  IF mean_time_ns.exc # "none" THEN Raises(mean_time_ns.exc)
             ELSE IF mean_time_ms.exc # "none" THEN Raises(mean_time_ms.exc)
             ELSE ConcurrentLoop(benchs, i + 1, Append(messages, line))

analyze_concurrent_performance(res) ==
    LET concurrent_benchmarks == Matching(res, "concurrent_operations")
    IN  IF concurrent_benchmarks = <<>>
        THEN NoData("No concurrent operation benchmarks found")
        ELSE ConcurrentLoop(concurrent_benchmarks, 1, <<>>)

----------------------------------------------------------------------------
(* The loader *)

\* criterion_dir.exists(): "True", "False", or the exception out of stat()
existsAlways(r) == "True"

exists(r) ==
    CASE r = "missing" -> "False"
      [] r = "no_access" -> "PermissionError"
      [] OTHER -> "True"

\* `not results`, for a dict
not_resultsNever(res) == FALSE

not_results(res) == res = <<>>

\* criterion_dir.iterdir(): "none" when it yields the children, or the
\* exception it raises
iterdir(r) ==
    CASE r = "file" -> "NotADirectoryError"
      [] r = "dir_no_read" -> "PermissionError"
      [] OTHER -> "none"

\* bench_dir.is_dir(): "True", "False", or the exception out of stat()
is_dir(r, child) ==
    CASE r = "dir_no_search" -> "PermissionError"
      [] child.is_dir -> "True"
      [] OTHER -> "False"

\* estimates_file.exists(), for bench_dir / "base" / "estimates.json":
\* "True", "False", or the exception out of stat()
estimates_existsAlways(child) == "True"

estimates_exists(child) ==
    CASE child.estimates = "absent" -> "False"
      [] child.estimates = "no_access" -> "PermissionError"
      [] OTHER -> "True"

\* open(estimates_file, 'r'): "none", the exception it raises, or "blocks"
\* when the call never returns
open_estimates(child) ==
    CASE child.estimates = "directory" -> "IsADirectoryError"
      [] child.estimates = "unreadable" -> "PermissionError"
      [] child.estimates = "socket" -> "OSError"
      [] child.estimates = "fifo" -> "blocks"
      [] OTHER -> "none"

\* json.load(f) with the failure swallowed
json_loadLenient(child) == { [exc |-> "none", data |-> child.data] }

\* json.load(f): the outcomes the call can have, each the parsed value
\* (exc "none"), the exception out of it, or "killed" when the process does
\* not outlive the call.  Exceptions come out of f.read() (OSError,
\* MemoryError, UnicodeDecodeError) or out of the decoder.  The decoder
\* takes NaN, Infinity and -Infinity, which are not JSON.  Reading more
\* than the memory there is has two outcomes, and which one depends on the
\* machine, not on the script or its input.
json_load(child) ==
    CASE child.estimates = "read_error" ->
           { [exc |-> "OSError", data |-> EmptyObject] }
      [] child.estimates = "too_large" ->
           { [exc |-> "MemoryError", data |-> EmptyObject],
             [exc |-> "killed", data |-> EmptyObject] }
      [] child.estimates = "malformed" ->
           { [exc |-> "JSONDecodeError", data |-> EmptyObject] }
      [] child.estimates = "not_utf8" ->
           { [exc |-> "UnicodeDecodeError", data |-> EmptyObject] }
      [] child.estimates = "too_many_digits" ->
           { [exc |-> "ValueError", data |-> EmptyObject] }
      [] child.estimates = "too_deep" ->
           { [exc |-> "RecursionError", data |-> EmptyObject] }
      [] OTHER ->
           { [exc |-> "none", data |-> child.data] }

\* results[key] = value on a dict kept in insertion order
DictSet(d, key, value) ==
    IF \E i \in 1..Len(d) : d[i].name = key
    THEN [i \in 1..Len(d) |->
            IF d[i].name = key THEN [name |-> key, data |-> value] ELSE d[i]]
    ELSE Append(d, [name |-> key, data |-> value])

Keys(d) == { d[i].name : i \in 1..Len(d) }

----------------------------------------------------------------------------
(* main() *)

Banner == Text("============================================================")

Rule == Text("------------------------------------------------------------")

\* main() folds the flags of the two required categories into all_passed
\* (all_passed = all_passed and passed) ...
FoldRequired(overall, passed) == overall /\ passed

\* ... and assigns `passed` for memory and concurrency without folding it.
KeepInformationalFolded(overall, passed) == overall /\ passed

KeepInformational(overall, passed) == overall

\* sys.exit(0) if all_passed else sys.exit(1)
SummaryExitCode(overall) == IF overall THEN 0 ELSE 1

\* The summary block main() prints after the "Summary" banner.
SummaryBlockBoth(overall) ==
    << Text(IF overall THEN "All performance requirements met!"
                       ELSE "Some performance requirements not met"),
       Text(""),
       Text("Performance targets (Non-functional requirement 4.1):"),
       Target("Application startup time", THRESHOLDS.app_startup_time_ms),
       Target("Tool execution latency", THRESHOLDS.tool_execution_latency_ms),
       Target("Memory overhead (manual check)", THRESHOLDS.memory_overhead_percent) >>

SummaryBlock(overall) ==
    IF overall
    THEN << Text("All performance requirements met!"),
            Text(""),
            Text("Performance targets (Non-functional requirement 4.1):"),
            Target("Application startup time", THRESHOLDS.app_startup_time_ms),
            Target("Tool execution latency", THRESHOLDS.tool_execution_latency_ms),
            Target("Memory overhead (manual check)", THRESHOLDS.memory_overhead_percent) >>
    ELSE << Text("Some performance requirements not met"),
            Text(""),
            Text("Please review the results above and optimize accordingly.") >>

\* What is not a readable directory has no listing.  In a directory that
\* cannot be searched every child is met alike, so that one child stands
\* for a listing.
Init ==
    /\ root \in RootKinds
    /\ listing \in Listings
    /\ root \notin {"dir", "dir_no_search"} => listing = <<>>
    /\ root = "dir_no_search" => Len(listing) <= 1
    /\ pc = "start"
    /\ remaining = <<>>
    /\ loaded = <<>>
    /\ results = <<>>
    /\ bound = FALSE
    /\ all_passed = TRUE
    /\ flags = <<>>
    /\ calls = <<>>
    /\ out = <<>>
    /\ raised = "none"
    /\ exit_code = NotExited

\* sys.exit(code)
Exit(code) ==
    /\ pc' = "done"
    /\ exit_code' = code
    /\ raised' = "none"

\* An exception nothing catches: the interpreter prints the traceback to
\* stderr and the process ends with status 1.
Uncaught(exc) ==
    /\ pc' = "done"
    /\ exit_code' = 1
    /\ raised' = exc

\* A call that never returns: the process stays where it is.
Blocks ==
    /\ pc' = "blocked"
    /\ UNCHANGED <<raised, exit_code>>

\* The kernel kills the process (signal 9): no exception, no traceback and
\* no exit code.
Killed ==
    /\ pc' = "killed"
    /\ UNCHANGED <<raised, exit_code>>

\* Lines 134-145: the banner, then criterion_dir.exists() is false.
MissingResultsDirectory ==
    /\ pc = "start"
    /\ exists(root) = "False"
    /\ out' = out \o << Banner, Text("Sandbox Performance Benchmark Analysis"),
                        Banner, Text(""),
                        Text("ERROR: Benchmark results not found."),
                        Text("Please run benchmarks first: cargo bench --bench sandbox_benchmarks") >>
    /\ Exit(1)
    /\ UNCHANGED <<root, listing, remaining, loaded, results, bound,
                   all_passed, flags, calls>>

\* Lines 134-142: the banner, then criterion_dir.exists() raises.
ResultsDirectoryDenied ==
    /\ pc = "start"
    /\ exists(root) \notin {"True", "False"}
    /\ out' = out \o << Banner, Text("Sandbox Performance Benchmark Analysis"),
                        Banner, Text("") >>
    /\ Uncaught(exists(root))
    /\ UNCHANGED <<root, listing, remaining, loaded, results, bound,
                   all_passed, flags, calls>>

\* Lines 134-149: the banner, criterion_dir.exists() is true, and main calls
\* load_benchmark_results, whose iterdir() raises when the path is not a
\* directory or cannot be read.
CallLoad ==
    /\ pc = "start"
    /\ exists(root) = "True"
    /\ out' = out \o << Banner, Text("Sandbox Performance Benchmark Analysis"),
                        Banner, Text(""), Text("Loading benchmark results...") >>
    /\ calls' = Append(calls, "load_benchmark_results")
    /\ loaded' = <<>>
    /\ IF iterdir(root) = "none"
       THEN /\ remaining' = listing
            /\ pc' = "iter"
            /\ UNCHANGED <<raised, exit_code>>
       ELSE /\ Uncaught(iterdir(root))
            /\ UNCHANGED remaining
    /\ UNCHANGED <<root, listing, results, bound, all_passed, flags>>

\* Lines 32-41: one iteration of the loader's loop.
LoadChild ==
    /\ pc = "iter"
    /\ remaining # <<>>
    /\ LET bench_dir == Head(remaining)
       IN  /\ remaining' = Tail(remaining)
           /\ IF is_dir(root, bench_dir) \notin {"True", "False"}
              THEN /\ Uncaught(is_dir(root, bench_dir))
                   /\ UNCHANGED loaded
              ELSE IF is_dir(root, bench_dir) = "False"
              THEN UNCHANGED <<loaded, pc, raised, exit_code>>
              ELSE IF estimates_exists(bench_dir) \notin {"True", "False"}
              THEN /\ Uncaught(estimates_exists(bench_dir))
                   /\ UNCHANGED loaded
              ELSE IF estimates_exists(bench_dir) = "False"
              THEN UNCHANGED <<loaded, pc, raised, exit_code>>
              ELSE IF open_estimates(bench_dir) = "blocks"
              THEN /\ Blocks
                   /\ UNCHANGED loaded
              ELSE IF open_estimates(bench_dir) # "none"
              THEN /\ Uncaught(open_estimates(bench_dir))
                   /\ UNCHANGED loaded
              ELSE \E data \in json_load(bench_dir) :
                      IF data.exc = "killed"
                      THEN /\ Killed
                           /\ UNCHANGED loaded
                      ELSE IF data.exc # "none"
                      THEN /\ Uncaught(data.exc)
                           /\ UNCHANGED loaded
                      ELSE /\ loaded' = DictSet(loaded, bench_dir.name, data.data)
                           /\ UNCHANGED <<pc, raised, exit_code>>
    /\ UNCHANGED <<root, listing, results, bound, all_passed, flags, calls, out>>

\* Lines 43 and 149: the loop is over, the loader returns its dict and main
\* binds it to `results`.
LoadReturn ==
    /\ pc = "iter"
    /\ remaining = <<>>
    /\ results' = loaded
    /\ bound' = TRUE
    /\ pc' = "loaded"
    /\ UNCHANGED <<root, listing, remaining, loaded, all_passed, flags, calls,
                   out, raised, exit_code>>

\* Lines 151-153: `if not results`.
EmptyResultSet ==
    /\ pc = "loaded"
    /\ not_results(results)
    /\ out' = Append(out, Text("ERROR: No benchmark results found in target/criterion"))
    /\ Exit(1)
    /\ UNCHANGED <<root, listing, remaining, loaded, results, bound,
                   all_passed, flags, calls>>

\* Lines 155-159.
FoundResults ==
    /\ pc = "loaded"
    /\ ~not_results(results)
    /\ out' = out \o << [kind |-> "found", count |-> Len(results)], Text("") >>
    /\ all_passed' = TRUE
    /\ pc' = "startup"
    /\ UNCHANGED <<root, listing, remaining, loaded, results, bound, flags,
                   calls, raised, exit_code>>

\* One numbered section of main(): the heading, the call of the analyzer,
\* and, when it returns, the message and the new all_passed.
Section(at, next, title, fn, r, overall) ==
    /\ pc = at
    /\ calls' = Append(calls, fn)
    /\ IF r.exc = "none"
       THEN /\ out' = out \o <<Text(title), Rule>> \o r.message \o <<Text("")>>
            /\ flags' = Append(flags, r.flag)
            /\ all_passed' = overall
            /\ pc' = next
            /\ UNCHANGED <<raised, exit_code>>
       ELSE /\ out' = out \o <<Text(title), Rule>>
            /\ Uncaught(r.exc)
            /\ UNCHANGED <<flags, all_passed>>
    /\ UNCHANGED <<root, listing, remaining, loaded, results, bound>>

\* Lines 161-166.
StartupSection ==
    LET r == analyze_startup_time(results)
    IN  Section("startup", "latency", "1. Application Startup Time",
                "analyze_startup_time", r, FoldRequired(all_passed, r.flag))

\* Lines 168-173.
LatencySection ==
    LET r == analyze_execution_latency(results)
    IN  Section("latency", "memory", "2. Tool Execution Latency",
                "analyze_execution_latency", r, FoldRequired(all_passed, r.flag))

\* Lines 175-179.
MemorySection ==
    LET r == analyze_memory_overhead(results)
    IN  Section("memory", "concurrent", "3. Memory Overhead",
                "analyze_memory_overhead", r, KeepInformational(all_passed, r.flag))

\* Lines 181-185.
ConcurrentSection ==
    LET r == analyze_concurrent_performance(results)
    IN  Section("concurrent", "summary", "4. Concurrent Operations",
                "analyze_concurrent_performance", r,
                KeepInformational(all_passed, r.flag))

\* Lines 187-204.
Summary ==
    /\ pc = "summary"
    /\ out' = out \o <<Banner, Text("Summary"), Banner>> \o SummaryBlock(all_passed)
    /\ Exit(SummaryExitCode(all_passed))
    /\ UNCHANGED <<root, listing, remaining, loaded, results, bound,
                   all_passed, flags, calls>>

Next ==
    \/ MissingResultsDirectory
    \/ ResultsDirectoryDenied
    \/ CallLoad
    \/ LoadChild
    \/ LoadReturn
    \/ EmptyResultSet
    \/ FoundResults
    \/ StartupSection
    \/ LatencySection
    \/ MemorySection
    \/ ConcurrentSection
    \/ Summary

Spec == Init /\ [][Next]_vars

----------------------------------------------------------------------------
(* Vocabulary of the properties *)

Range(seq) == { seq[i] : i \in 1..Len(seq) }

Called(fn) == \E i \in 1..Len(calls) : calls[i] = fn

Analyzers ==
    { "analyze_startup_time", "analyze_execution_latency",
      "analyze_memory_overhead", "analyze_concurrent_performance" }

NoAnalyzerRan == \A i \in 1..Len(calls) : calls[i] \notin Analyzers

Done == pc = "done"

\* The uncaught exception came out of the analyzer fn.
RaisedIn(fn) == Done /\ raised # "none" /\ calls # <<>> /\ calls[Len(calls)] = fn

\* Indices of the entries of main's results whose name contains sub.
MatchIdx(sub) == { i \in 1..Len(results) : Contains(sub, results[i].name) }

Missing(d) == d.shape \in {"no_mean", "no_pe"}

\* The entry's point estimate divided by 1,000,000 is strictly below the
\* threshold (a missing point estimate counts as 0, -inf is below, nan and
\* everything that is no number is not).
EntryBelow(d, threshold_ns) ==
    CASE Missing(d) -> 0 < threshold_ns
      [] d.shape = "num" -> d.ns < threshold_ns
      [] d.shape = "neg_inf" -> TRUE
      [] OTHER -> FALSE

\* Entries the analyzers cannot read a number from.
Unreadable(d) ==
    d.shape \in {"not_object", "mean_not_object", "non_numeric", "huge_int"}

\* A child of the root that is a directory containing base/estimates.json.
HasStatistics(c) == c.is_dir /\ c.estimates # "absent"

\* Its base/estimates.json cannot be reached or opened, or json.load
\* rejects it.
Rejected(c) == c.is_dir /\ c.estimates \in RejectedKinds

\* Its base/estimates.json is a FIFO nobody writes to.
Fifo(c) == c.is_dir /\ c.estimates = "fifo"

\* Its base/estimates.json is a file whose text is not valid JSON.
NotValidJSON(c) ==
    c.is_dir /\ c.estimates \in {"malformed", "not_utf8", "nonstandard"}

\* Reading it takes more memory than there is.
TooLarge(c) == c.is_dir /\ c.estimates = "too_large"

\* The exception loading the child ends in.
LoadFailure(c) ==
    CASE c.estimates = "malformed" -> "JSONDecodeError"
      [] c.estimates = "not_utf8" -> "UnicodeDecodeError"
      [] c.estimates = "too_many_digits" -> "ValueError"
      [] c.estimates = "too_deep" -> "RecursionError"
      [] c.estimates = "directory" -> "IsADirectoryError"
      [] c.estimates \in {"unreadable", "no_access"} -> "PermissionError"
      [] c.estimates \in {"socket", "read_error"} -> "OSError"
      [] c.estimates = "too_large" -> "MemoryError"
      [] OTHER -> "none"

\* The line an analyzer prints for an entry it took for 0 ns:
\* "PASS <name>: 0.00ms (threshold: <threshold>ms)".
PassAtZero(name, threshold) ==
    [kind |-> "PASS", name |-> name, cls |-> "finite", hundredths |-> 0,
     threshold |-> threshold]

SummaryPrinted == Text("Summary") \in Range(out)

TargetLine(text, threshold) ==
    [kind |-> "target", text |-> text, threshold |-> threshold]

SummaryTargets ==
    { TargetLine("Application startup time", 2000),
      TargetLine("Tool execution latency", 100),
      TargetLine("Memory overhead (manual check)", 10) }

----------------------------------------------------------------------------
(* Properties *)

\* C1 as stated: in a run where the directory exists and the loaded result
\* set is non-empty, the exit code is 0 exactly when the startup and the
\* latency analyzer both returned a true flag.  (Point estimates beyond the
\* float range are left out, so that the violation does not rest on them.)
C1_AsStated ==
    (Done /\ bound /\ results # <<>>
       /\ \A i \in 1..Len(results) : results[i].data.shape # "huge_int")
    => (exit_code = 0 <=> (Len(flags) >= 2 /\ flags[1] /\ flags[2]))

\* C1 amended: in such a run the exit code is 0 exactly when all four
\* analyzers returned and the startup and latency flags are both true, and
\* it is 1 otherwise; an analyzer that raises ends the run with exit code 1;
\* the flags of the memory and concurrency analyzers play no part.
C1_ExitCode ==
    (Done /\ bound /\ results # <<>>)
    => /\ exit_code \in {0, 1}
       /\ exit_code = 0 <=> (Len(flags) = 4 /\ flags[1] /\ flags[2])
       /\ raised # "none" => exit_code = 1
       /\ raised = "none" => Len(flags) = 4

\* A run that exits 0 although the memory and the concurrency analyzer both
\* returned false.
C1_Witness ==
    Done /\ exit_code = 0 /\ Len(flags) = 4 /\ ~flags[3] /\ ~flags[4]

\* C2: once a required analyzer has returned with at least one matching
\* entry, its flag is true exactly when every matching entry's point
\* estimate divided by 1,000,000 is strictly below the threshold (2000 ms
\* for startup, 100 ms for latency), so an entry exactly at the threshold
\* fails the category; and an analyzer that raised had an entry that is
\* not a number below the threshold.
C2_StrictThreshold ==
    /\ (Len(flags) >= 1 /\ MatchIdx("app_sandbox_startup") # {})
       => (flags[1] <=> \A i \in MatchIdx("app_sandbox_startup") :
                           EntryBelow(results[i].data, 2000000000))
    /\ (Len(flags) >= 2 /\ MatchIdx("tool_execution_latency") # {})
       => (flags[2] <=> \A i \in MatchIdx("tool_execution_latency") :
                           EntryBelow(results[i].data, 100000000))
    /\ RaisedIn("analyze_startup_time")
       => \E i \in MatchIdx("app_sandbox_startup") :
             ~EntryBelow(results[i].data, 2000000000)
    /\ RaisedIn("analyze_execution_latency")
       => \E i \in MatchIdx("tool_execution_latency") :
             ~EntryBelow(results[i].data, 100000000)

\* Two startup entries, a passing one (100 ms) first and then one exactly
\* at 2,000,000,000 ns: the category fails.
C2_Witness ==
    /\ Len(flags) >= 1
    /\ Len(results) = 2
    /\ MatchIdx("app_sandbox_startup") = {1, 2}
    /\ results[1].data = [shape |-> "num", ns |-> 100000000]
    /\ results[2].data = [shape |-> "num", ns |-> 2000000000]
    /\ ~flags[1]

\* C3: with a non-empty result set and no entry matching a required
\* category, that category's analyzer returns false, and the run ends with
\* exit code 1 whatever the other entries hold.
C3_CategoryAbsent ==
    /\ (Len(flags) >= 1 /\ MatchIdx("app_sandbox_startup") = {}) => ~flags[1]
    /\ (Len(flags) >= 2 /\ MatchIdx("tool_execution_latency") = {}) => ~flags[2]
    /\ (Done /\ bound /\ results # <<>>
          /\ (MatchIdx("app_sandbox_startup") = {}
                \/ MatchIdx("tool_execution_latency") = {}))
       => exit_code = 1

\* No startup entry, a passing latency entry and a memory entry: all four
\* analyzers return, and the run exits 1.
C3_Witness ==
    /\ Done /\ exit_code = 1 /\ raised = "none"
    /\ MatchIdx("app_sandbox_startup") = {}
    /\ Len(flags) = 4 /\ ~flags[1] /\ flags[2] /\ flags[3]

\* C4: when the root does not exist, the loader is never called, no
\* analyzer runs, nothing is enumerated, and the run ends with exit code 1.
C4_MissingDirectory ==
    root = "missing"
    => /\ calls = <<>>
       /\ remaining = <<>> /\ loaded = <<>> /\ ~bound
       /\ exit_code # 0
       /\ Done => (exit_code = 1 /\ raised = "none")

C4_Witness == root = "missing" /\ Done /\ exit_code = 1

\* C5: when the root is a directory none of whose children is a directory
\* containing base/estimates.json, the loader returns an empty result set,
\* no analyzer ever runs and the run ends with exit code 1.
C5_EmptyResultSet ==
    /\ (root = "dir" /\ \A i \in 1..Len(listing) : ~HasStatistics(listing[i]))
       => /\ NoAnalyzerRan
          /\ exit_code # 0
          /\ pc \in {"start", "iter", "loaded", "done"}
          /\ bound => results = <<>>
          /\ Done => (exit_code = 1 /\ raised = "none" /\ bound)
    /\ (bound /\ results = <<>>)
       => (NoAnalyzerRan /\ exit_code # 0 /\ (Done => exit_code = 1))

\* The empty result set came from a listing of two children, a plain file
\* and a directory without statistics.
C5_Witness ==
    /\ Done /\ bound /\ results = <<>> /\ exit_code = 1
    /\ Len(listing) = 2
    /\ \E i, j \in 1..2 : ~listing[i].is_dir /\ listing[j].is_dir

\* C6: once the loader has returned, the keys of the result set are exactly
\* the names of the children that are directories containing
\* base/estimates.json, one entry per such child, each holding that child's
\* parsed object.
C6_KeysAreStatisticsDirs ==
    bound
    => /\ Keys(results)
            = { listing[i].name : i \in { j \in 1..Len(listing) : HasStatistics(listing[j]) } }
       /\ Cardinality(Keys(results)) = Len(results)
       /\ \A k \in 1..Len(results) :
             \E i \in 1..Len(listing) :
                /\ HasStatistics(listing[i])
                /\ listing[i].name = results[k].name
                /\ listing[i].estimates \in {"valid", "nonstandard"}
                /\ listing[i].data = results[k].data

\* The loader returned one entry from a listing that also held a child it
\* skipped.
C6_Witness ==
    /\ bound /\ Len(results) = 1 /\ Len(listing) = 2
    /\ \E i \in 1..2 : ~HasStatistics(listing[i])

\* C7 as stated: when some child directory's base/estimates.json is not
\* valid JSON, main's results are never bound, no analyzer runs, the exit
\* code is never 0, and a run that has ended has ended with the parse
\* failure.
C7_AsStated ==
    (root = "dir" /\ \E i \in 1..Len(listing) : NotValidJSON(listing[i]))
    => /\ ~bound
       /\ NoAnalyzerRan
       /\ exit_code # 0
       /\ pc \notin {"blocked", "killed"}
       /\ Done => raised \in {"JSONDecodeError", "UnicodeDecodeError"}

\* C7 amended: when some child directory's base/estimates.json cannot be
\* loaded, the loader never returns, main's results are never bound, no
\* analyzer runs and the exit code is never 0.  What happens is decided by
\* the first such child in iteration order: a file that cannot be reached
\* or opened (PermissionError, IsADirectoryError, OSError for a socket),
\* that cannot be read (OSError, MemoryError) or that json.load rejects
\* (text that is not JSON, bytes that are not UTF-8, an integer literal of
\* more than 4300 digits, nesting beyond the recursion limit) ends the run
\* with that exception and exit code 1; a FIFO nobody writes to leaves the
\* process inside open(), and it never exits; and a file with more content
\* than there is memory ends the run with MemoryError and exit code 1 or
\* has the process killed by the kernel, without an exit code.  A file
\* that is not valid JSON only for the literals NaN, Infinity or -Infinity
\* is loaded like any other.
C7_LoadFailureAborts ==
    /\ (root = "dir"
          /\ \E i \in 1..Len(listing) : Rejected(listing[i]) \/ Fifo(listing[i]))
       => /\ ~bound
          /\ results = <<>>
          /\ NoAnalyzerRan
          /\ exit_code # 0
          /\ ~(pc = "iter" /\ remaining = <<>>)
          /\ \A i \in 1..Len(listing) :
                (/\ Rejected(listing[i]) \/ Fifo(listing[i])
                 /\ \A j \in 1..(i - 1) :
                       ~(Rejected(listing[j]) \/ Fifo(listing[j])))
                => IF Fifo(listing[i])
                   THEN pc # "killed" /\ ~Done /\ exit_code = NotExited
                   ELSE /\ pc # "blocked"
                        /\ pc = "killed"
                           => (TooLarge(listing[i]) /\ exit_code = NotExited
                                 /\ raised = "none")
                        /\ Done => (exit_code = 1 /\ raised = LoadFailure(listing[i]))
    /\ bound
       => \A i \in 1..Len(listing) :
             listing[i].estimates = "nonstandard"
             => \E k \in 1..Len(results) :
                   /\ results[k].name = listing[i].name
                   /\ results[k].data = listing[i].data

\* The parse failure came after a valid file that, alone, passes both
\* required categories had been loaded.
C7_Witness ==
    /\ Done /\ raised = "JSONDecodeError"
    /\ Len(loaded) = 1
    /\ loaded[1].name = "cold_app_sandbox_startup_tool_execution_latency_4"
    /\ loaded[1].data = [shape |-> "num", ns |-> 99999999]
    /\ ~bound

\* C8 as stated, for result sets whose point estimates are all numbers or
\* missing: the memory analyzer and the concurrency analyzer, once called,
\* return, and return true exactly when some entry name contains their
\* substring.
C8_AsStated ==
    (\A i \in 1..Len(results) :
        results[i].data.shape
          \in {"no_mean", "no_pe", "num", "big_int", "huge_int", "neg_inf", "nan"})
    => /\ Called("analyze_memory_overhead")
          => (Len(flags) >= 3 /\ (flags[3] <=> MatchIdx("memory_overhead") # {}))
       /\ Called("analyze_concurrent_performance")
          => (Len(flags) >= 4 /\ (flags[4] <=> MatchIdx("concurrent_operations") # {}))

\* C9 as stated: every run that reaches the summary prints the list of the
\* three performance targets.
C9_AsStated == (Done /\ SummaryPrinted) => SummaryTargets \subseteq Range(out)

\* C9 amended: a run that reaches the summary prints the list of the three
\* performance targets exactly when the overall result is pass; on fail the
\* summary block holds the "not met" line and the advice to review, and no
\* target.
C9_SummaryBlock ==
    (Done /\ SummaryPrinted)
    => /\ exit_code \in {0, 1}
       /\ exit_code = 0
          => /\ SummaryTargets \subseteq Range(out)
             /\ Text("All performance requirements met!") \in Range(out)
       /\ exit_code = 1
          => /\ SummaryTargets \cap Range(out) = {}
             /\ Text("Some performance requirements not met") \in Range(out)
             /\ out[Len(out)]
                  = Text("Please review the results above and optimize accordingly.")

C9_Witness == Done /\ SummaryPrinted /\ exit_code = 1 /\ Len(flags) = 4

\* C10 as stated: an entry of a required category that has no 'mean'
\* object, or whose 'mean' has no 'point_estimate', is reported as PASS at
\* 0 ms and does not by itself make the analyzer raise.
C10_AsStated ==
    \A i \in 1..Len(results) :
       results[i].data.shape \in {"no_mean", "no_pe", "mean_not_object"}
       => /\ (i \in MatchIdx("app_sandbox_startup") /\ Len(flags) >= 1)
             => PassAtZero(results[i].name, 2000) \in Range(out)
          /\ (i \in MatchIdx("tool_execution_latency") /\ Len(flags) >= 2)
             => PassAtZero(results[i].name, 100) \in Range(out)
          /\ (i \in MatchIdx("app_sandbox_startup") /\ RaisedIn("analyze_startup_time"))
             => \E j \in MatchIdx("app_sandbox_startup") \ {i} :
                   Unreadable(results[j].data)
          /\ (i \in MatchIdx("tool_execution_latency")
                /\ RaisedIn("analyze_execution_latency"))
             => \E j \in MatchIdx("tool_execution_latency") \ {i} :
                   Unreadable(results[j].data)

\* C10 amended: an entry of a required category without a 'mean' key, or
\* whose 'mean' is an object without 'point_estimate', is reported as PASS
\* at 0 ms; it does not make the analyzer raise (an analyzer that raised had
\* another entry, one it cannot read a number from), and the category flag
\* is the conjunction over the other matching entries.  An entry whose
\* 'mean' is present and not an object makes the analyzer raise, and the run
\* ends with exit code 1.
C10_MissingDefaultsToZero ==
    \A i \in 1..Len(results) :
       /\ Missing(results[i].data)
          => /\ (i \in MatchIdx("app_sandbox_startup") /\ Len(flags) >= 1)
                => /\ PassAtZero(results[i].name, 2000) \in Range(out)
                   /\ flags[1] <=> \A j \in MatchIdx("app_sandbox_startup") \ {i} :
                                      EntryBelow(results[j].data, 2000000000)
             /\ (i \in MatchIdx("tool_execution_latency") /\ Len(flags) >= 2)
                => /\ PassAtZero(results[i].name, 100) \in Range(out)
                   /\ flags[2] <=> \A j \in MatchIdx("tool_execution_latency") \ {i} :
                                      EntryBelow(results[j].data, 100000000)
             /\ (i \in MatchIdx("app_sandbox_startup")
                   /\ RaisedIn("analyze_startup_time"))
                => \E j \in MatchIdx("app_sandbox_startup") \ {i} :
                      Unreadable(results[j].data)
             /\ (i \in MatchIdx("tool_execution_latency")
                   /\ RaisedIn("analyze_execution_latency"))
                => \E j \in MatchIdx("tool_execution_latency") \ {i} :
                      Unreadable(results[j].data)
       /\ results[i].data.shape = "mean_not_object"
          => /\ (i \in MatchIdx("app_sandbox_startup") /\ Called("analyze_startup_time"))
                => (RaisedIn("analyze_startup_time") /\ exit_code = 1 /\ flags = <<>>)
             /\ (i \in MatchIdx("tool_execution_latency")
                   /\ Called("analyze_execution_latency"))
                => (RaisedIn("analyze_execution_latency") /\ exit_code = 1
                      /\ Len(flags) = 1)

\* A run that exits 0 although no loaded file holds a point estimate.
C10_Witness ==
    /\ Done /\ exit_code = 0
    /\ Len(results) = 2
    /\ results[1].data.shape = "no_mean"
    /\ results[2].data.shape = "no_pe"

====
